---------------------------- MODULE Spec2Model ----------------------------
(***************************************************************************)
(* Tally v1 finance engine: snapshot resolution (domain.py), the plan      *)
(* scheduler and the month-by-month cash-flow projector (projections.py).  *)
(*                                                                         *)
(* Dates are datetime.date values, held as proleptic Gregorian ordinals    *)
(* (date.toordinal()); calendar arithmetic goes through year/month/day.    *)
(* Amounts and balances are whole currency units.                          *)
(***************************************************************************)
EXTENDS Integers, Sequences, FiniteSets, TLC

VARIABLES
    accounts,         \* list[Account] handed to the call
    snapshots,        \* list[Snapshot] handed to the call
    plans,            \* list[Plan] handed to the call
    start_date,       \* project_cash_flow: start_date
    months,           \* project_cash_flow: months
    args,             \* arguments of a call of one of the pure helpers
    ret,              \* what that call returned
    pc,               \* position of the running call
    balances,         \* project_cash_flow: the working balance dict
    plan_next_dates,  \* project_cash_flow: plan id -> pending due date
    current_date,     \* project_cash_flow: start of the current window
    month_num,        \* project_cash_flow: loop index of the for loop
    result            \* project_cash_flow: the result dict being built

vars == <<accounts, snapshots, plans, start_date, months, args, ret, pc,
          balances, plan_next_dates, current_date, month_num, result>>

---------------------------------------------------------------------------
(* Python values *)

\* None, as a date-or-None value (every date ordinal is >= 1, and truthy)
None == 0

\* the outcome of an expression that raised AttributeError
AttributeError == -1

\* Plan.end_date when the instance has no such attribute: the dataclass
\* declares no end_date field, so Plan(...) builds instances without it;
\* an instance has one only when a caller assigned it afterwards.
NoAttr == -2

Min(a, b) == IF a <= b THEN a ELSE b

---------------------------------------------------------------------------
(* datetime.date, datetime.timedelta, dateutil.relativedelta *)

IsLeap(y) == (y % 4 = 0) /\ ((y % 100 # 0) \/ (y % 400 = 0))

DaysInMonth(y, m) ==
    IF m = 2 THEN (IF IsLeap(y) THEN 29 ELSE 28)
    ELSE IF m \in {4, 6, 9, 11} THEN 30 ELSE 31

DaysBeforeYear(y) ==
    LET p == y - 1 IN p * 365 + (p \div 4) - (p \div 100) + (p \div 400)

RECURSIVE DaysBeforeMonth(_, _)
DaysBeforeMonth(y, m) ==
    IF m = 1 THEN 0 ELSE DaysBeforeMonth(y, m - 1) + DaysInMonth(y, m - 1)

\* date(y, m, d)
Date(y, m, d) == DaysBeforeYear(y) + DaysBeforeMonth(y, m) + d

RECURSIVE YearFrom(_, _)
YearFrom(n, y) == IF n <= DaysBeforeYear(y + 1) THEN y ELSE YearFrom(n, y + 1)

\* dt.year
YearOf(n) == YearFrom(n, n \div 366)

RECURSIVE MonthFrom(_, _, _)
MonthFrom(k, y, m) ==
    IF k <= DaysBeforeMonth(y, m) + DaysInMonth(y, m) THEN m
    ELSE MonthFrom(k, y, m + 1)

\* dt.month
MonthOf(n) == LET y == YearOf(n) IN MonthFrom(n - DaysBeforeYear(y), y, 1)

\* dt.day
DayOf(n) ==
    LET y == YearOf(n) IN n - DaysBeforeYear(y) - DaysBeforeMonth(y, MonthOf(n))

\* dt + timedelta(days=k)
AddDays(dt, k) == dt + k

\* dt + relativedelta(months=k), 1 <= k <= 12: the month carries into the
\* year and the day is clamped to the target month's length
AddMonths(dt, k) ==
    LET mm    == MonthOf(dt) + k
        year  == IF mm > 12 THEN YearOf(dt) + 1 ELSE YearOf(dt)
        month == IF mm > 12 THEN mm - 12 ELSE mm
        day   == Min(DaysInMonth(year, month), DayOf(dt))
    IN  Date(year, month, day)

\* dt + relativedelta(years=k)
AddYears(dt, k) ==
    LET year  == YearOf(dt) + k
        month == MonthOf(dt)
        day   == Min(DaysInMonth(year, month), DayOf(dt))
    IN  Date(year, month, day)

---------------------------------------------------------------------------
(* domain.py: records *)

\* AccountKind
AccountKinds == {"cash", "investment"}

\* Cadence
Cadences == {"monthly", "biweekly", "weekly", "quarterly", "annual"}

\* PlanStatus
PlanStatuses == {"active", "paused"}

\* Account(id, name, kind, currency)
Account(id, name, kind, currency) ==
    [id |-> id, name |-> name, kind |-> kind, currency |-> currency]

\* Snapshot(account_id, date, value)
Snapshot(account_id, date, value) ==
    [account_id |-> account_id, date |-> date, value |-> value]

\* Plan(id, type, from_account_id, to_account_id, amount, currency, cadence,
\* start_date, status): these nine fields and no end_date. WithEndDate is
\* the instance after `plan.end_date = e` (e a date or None).
Plan(id, type, from_account_id, to_account_id, amount, currency, cadence, plan_start, status) ==
    [id |-> id, type |-> type, from_account_id |-> from_account_id,
     to_account_id |-> to_account_id, amount |-> amount,
     currency |-> currency, cadence |-> cadence, start_date |-> plan_start,
     status |-> status, end_date |-> NoAttr]

WithEndDate(plan, e) == [plan EXCEPT !.end_date = e]

---------------------------------------------------------------------------
(* domain.py: get_latest_snapshot *)

\* The two list comprehensions: the positions, in list order, of the
\* snapshots of the account, kept when no as_of_date is given or when their
\* date is <= as_of_date.
account_snapshots(snaps, account_id, as_of_date) ==
    SelectSeq([i \in 1..Len(snaps) |-> i],
              LAMBDA i : /\ snaps[i].account_id = account_id
                         /\ (as_of_date # None => snaps[i].date <= as_of_date))

RECURSIVE MaxByDate_ge(_, _, _, _)
\* max with >= for >, so that a later element of equal key replaces the
\* best so far: a plausible slip
MaxByDate_ge(snaps, idx, k, best) ==
    IF k > Len(idx) THEN best
    ELSE MaxByDate_ge(snaps, idx, k + 1,
                      IF snaps[idx[k]].date >= snaps[best].date THEN idx[k] ELSE best)

RECURSIVE MaxByDate(_, _, _, _)
\* max(account_snapshots, key=lambda s: s.date): a later element replaces
\* the best so far only when its key is strictly greater
MaxByDate(snaps, idx, k, best) ==
    IF k > Len(idx) THEN best
    ELSE MaxByDate(snaps, idx, k + 1,
                   IF snaps[idx[k]].date > snaps[best].date THEN idx[k] ELSE best)

\* a plausible slip: the last snapshot of the account in list order, as if
\* the list were kept in chronological order
get_latest_snapshot_last(snaps, account_id, as_of_date) ==
    LET idx == account_snapshots(snaps, account_id, as_of_date)
    IN  IF Len(idx) = 0 THEN None ELSE idx[Len(idx)]

\* get_latest_snapshot: the position in `snaps` of the Snapshot object
\* returned, None when it returns None
get_latest_snapshot(snaps, account_id, as_of_date) ==
    LET idx == account_snapshots(snaps, account_id, as_of_date)
    IN  IF Len(idx) = 0 THEN None ELSE MaxByDate(snaps, idx, 2, idx[1])

---------------------------------------------------------------------------
(* projections.py: get_next_plan_date *)

\* lines 39-55: from_date advanced by the cadence
CadenceStep(cadence, from_date) ==
    CASE cadence = "monthly"   -> AddMonths(from_date, 1)
      [] cadence = "quarterly" -> AddMonths(from_date, 3)
      [] cadence = "annual"    -> AddYears(from_date, 1)
      [] cadence = "biweekly"  -> AddDays(from_date, 14)
      [] cadence = "weekly"    -> AddDays(from_date, 7)
      [] OTHER                 -> from_date

\* a plausible slip: the status is not looked at
get_next_plan_date_nostatus(plan, from_date) ==
    IF from_date < plan.start_date THEN plan.start_date
    ELSE IF plan.end_date = NoAttr THEN AttributeError
    ELSE IF plan.end_date # None /\ from_date > plan.end_date THEN None
    ELSE LET next_date == CadenceStep(plan.cadence, from_date)
         IN  IF plan.end_date # None /\ next_date > plan.end_date
             THEN None ELSE next_date

\* a plausible slip: the start date is advanced by one cadence step
get_next_plan_date_advstart(plan, from_date) ==
    IF plan.status # "active" THEN None
    ELSE IF from_date < plan.start_date
         THEN CadenceStep(plan.cadence, plan.start_date)
    ELSE IF plan.end_date = NoAttr THEN AttributeError
    ELSE IF plan.end_date # None /\ from_date > plan.end_date THEN None
    ELSE LET next_date == CadenceStep(plan.cadence, from_date)
         IN  IF plan.end_date # None /\ next_date > plan.end_date
             THEN None ELSE next_date

\* a plausible slip: the execution on end_date itself is suppressed (>=)
get_next_plan_date_endexcl(plan, from_date) ==
    IF plan.status # "active" THEN None
    ELSE IF from_date < plan.start_date THEN plan.start_date
    ELSE IF plan.end_date = NoAttr THEN AttributeError
    ELSE IF plan.end_date # None /\ from_date > plan.end_date THEN None
    ELSE LET next_date == CadenceStep(plan.cadence, from_date)
         IN  IF plan.end_date # None /\ next_date >= plan.end_date
             THEN None ELSE next_date

\* a plausible slip: a plan is taken as not yet started on its start_date
\* too (<= at line 31)
get_next_plan_date_lestart(plan, from_date) ==
    IF plan.status # "active" THEN None
    ELSE IF from_date <= plan.start_date THEN plan.start_date
    ELSE IF plan.end_date = NoAttr THEN AttributeError
    ELSE IF plan.end_date # None /\ from_date > plan.end_date THEN None
    ELSE LET next_date == CadenceStep(plan.cadence, from_date)
         IN  IF plan.end_date # None /\ next_date > plan.end_date
             THEN None ELSE next_date

\* get_next_plan_date: the date returned, None, or AttributeError when the
\* read of plan.end_date (line 35) finds no such attribute
get_next_plan_date(plan, from_date) ==
    IF plan.status # "active" THEN None
    ELSE IF from_date < plan.start_date THEN plan.start_date
    ELSE IF plan.end_date = NoAttr THEN AttributeError
    ELSE IF plan.end_date # None /\ from_date > plan.end_date THEN None
    ELSE LET next_date == CadenceStep(plan.cadence, from_date)
         IN  IF plan.end_date # None /\ next_date > plan.end_date
             THEN None ELSE next_date

---------------------------------------------------------------------------
(* Python dicts and object references *)

\* d[k] = v
Put(d, k, v) == [x \in DOMAIN d \cup {k} |-> IF x = k THEN v ELSE d[x]]

\* del d[k]
Del(d, k) == [x \in DOMAIN d \ {k} |-> d[x]]

\* A dict stored in a projection entry is an object of its own (aliased
\* FALSE, as dict(balances) makes it) or the working dict itself (aliased
\* TRUE); Observed is what an entry shows once the working dict holds `live`.
aliased_dict(d) == [aliased |-> TRUE, items |-> d]

\* dict(balances): a new dict with the same items
dict_copy(d) == [aliased |-> FALSE, items |-> d]

Observed(entry, live) ==
    IF entry.balances.aliased THEN [entry EXCEPT !.balances.items = live]
    ELSE entry

RECURSIVE SumOver(_, _)
\* sum of f[x] over x in S
SumOver(f, S) ==
    IF S = {} THEN 0
    ELSE LET x == CHOOSE y \in S : TRUE IN f[x] + SumOver(f, S \ {x})

---------------------------------------------------------------------------
(* projections.py: project_cash_flow *)

\* line 89: account_map = {acc.id: acc for acc in accounts}; the last
\* account of an id is the one kept
account_map(accs) ==
    [id \in {accs[i].id : i \in DOMAIN accs} |->
        accs[CHOOSE i \in DOMAIN accs :
                /\ accs[i].id = id
                /\ \A j \in DOMAIN accs : accs[j].id = id => j <= i]]

\* line 94 without the as-of date: a plausible slip
StartingBalance_noasof(snaps, account_id, sd) ==
    LET latest == get_latest_snapshot(snaps, account_id, None)
    IN  IF latest # None THEN snaps[latest].value ELSE 0

\* lines 94-101: the value an account's balance starts with
StartingBalance(snaps, account_id, sd) ==
    LET latest == get_latest_snapshot(snaps, account_id, sd)
    IN  IF latest # None THEN snaps[latest].value ELSE 0

\* lines 92-101: the dict both balances and starting_balances begin as
SeedBalances(accs, snaps, sd) ==
    [id \in {accs[i].id : i \in DOMAIN accs} |-> StartingBalance(snaps, id, sd)]

RECURSIVE SeedWarnings(_, _, _, _)
\* lines 98-104: one warning per account of the list without a snapshot
\* on or before start_date, in list order
SeedWarnings(accs, k, snaps, sd) ==
    IF k > Len(accs) THEN <<>>
    ELSE (IF get_latest_snapshot(snaps, accs[k].id, sd) = None
          THEN <<[kind |-> "no_snapshot", account |-> accs[k].id, date |-> sd]>>
          ELSE <<>>) \o SeedWarnings(accs, k + 1, snaps, sd)

\* line 107 without the status test: a plausible slip
active_plans_all(ps) == ps

\* line 107
active_plans(ps) == SelectSeq(ps, LAMBDA p : p.status = "active")

RECURSIVE SeedNextDates(_, _, _, _)
\* lines 110-120: the first due date of each active plan; raised when the
\* call of get_next_plan_date at line 118 raises
SeedNextDates(active, k, sd, next) ==
    IF k > Len(active) THEN [raised |-> FALSE, next |-> next]
    ELSE LET plan == active[k] IN
         IF plan.start_date >= sd
         THEN SeedNextDates(active, k + 1, sd, Put(next, plan.id, plan.start_date))
         ELSE LET next_date == get_next_plan_date(plan, AddDays(sd, -1)) IN
              IF next_date = AttributeError THEN [raised |-> TRUE, next |-> next]
              ELSE IF next_date # None
                   THEN SeedNextDates(active, k + 1, sd, Put(next, plan.id, next_date))
                   ELSE SeedNextDates(active, k + 1, sd, next)

\* lines 154-156 with the credit left out: a plausible slip
Transfer_debit_only(bal, plan) ==
    [bal EXCEPT ![plan.from_account_id] = @ - plan.amount]

\* lines 154-156: debit, then credit
Transfer(bal, plan) ==
    LET debited == [bal EXCEPT ![plan.from_account_id] = @ - plan.amount]
    IN  [debited EXCEPT ![plan.to_account_id] = @ + plan.amount]

\* lines 158-165
Transaction(plan, execution_date) ==
    [date |-> execution_date, plan_id |-> plan.id,
     from_account |-> plan.from_account_id, to_account |-> plan.to_account_id,
     amount |-> plan.amount,
     description |-> <<plan.id, plan.amount, plan.currency>>]

\* line 168 with zero counted as negative: a plausible slip
is_negative_le(bal, plan) == bal[plan.from_account_id] <= 0

\* line 168: if balances[plan.from_account_id] < 0
is_negative(bal, plan) == bal[plan.from_account_id] < 0

RECURSIVE WhileDue(_, _, _, _)
\* lines 136-182: the while loop of one plan whose id is in plan_next_dates.
\* st holds the locals it changes: balances, plan_next_dates, the month's
\* transactions, the warnings, and whether an exception left the function.
WhileDue(plan, amap, month_end, st) ==
    LET execution_date == st.plan_next_dates[plan.id] IN
    IF ~(execution_date <= month_end) THEN st
    ELSE IF plan.from_account_id \notin DOMAIN amap
    THEN [st EXCEPT
            !.warnings = Append(@, [kind |-> "unknown_from", plan |-> plan.id,
                                    account |-> plan.from_account_id]),
            !.plan_next_dates = Del(@, plan.id)]
    ELSE IF plan.to_account_id \notin DOMAIN amap
    THEN [st EXCEPT
            !.warnings = Append(@, [kind |-> "unknown_to", plan |-> plan.id,
                                    account |-> plan.to_account_id]),
            !.plan_next_dates = Del(@, plan.id)]
    ELSE LET bal == Transfer(st.balances, plan)
             executed ==
                 [st EXCEPT
                    !.balances = bal,
                    !.transactions = Append(@, Transaction(plan, execution_date)),
                    !.warnings =
                        IF is_negative(bal, plan)
                        THEN Append(@, [kind |-> "negative",
                                        account |-> amap[plan.from_account_id].name,
                                        balance |-> bal[plan.from_account_id],
                                        plan |-> plan.id,
                                        date |-> execution_date])
                        ELSE @]
             next_date == get_next_plan_date(plan, execution_date)
         IN  IF next_date = AttributeError THEN [executed EXCEPT !.raised = TRUE]
             ELSE IF next_date # None
             THEN WhileDue(plan, amap, month_end,
                           [executed EXCEPT !.plan_next_dates[plan.id] = next_date])
             ELSE [executed EXCEPT !.plan_next_dates = Del(@, plan.id)]

RECURSIVE ForPlans(_, _, _, _, _)
\* lines 132-182: the for loop over active_plans, from the k-th plan on
ForPlans(active, k, amap, month_end, st) ==
    IF k > Len(active) \/ st.raised THEN st
    ELSE ForPlans(active, k + 1, amap, month_end,
                  IF active[k].id \notin DOMAIN st.plan_next_dates THEN st
                  ELSE WhileDue(active[k], amap, month_end, st))

\* lines 194-196 with every balance added under every key: a plausible slip
NetWorthByCurrency_mixed(bal, amap) ==
    [c \in {amap[id].currency : id \in DOMAIN bal} |-> SumOver(bal, DOMAIN bal)]

\* lines 190-198: balances summed per currency of their account
NetWorthByCurrency(bal, amap) ==
    [c \in {amap[id].currency : id \in DOMAIN bal} |->
        SumOver(bal, {id \in DOMAIN bal : amap[id].currency = c})]

\* line 188 with the working dict stored instead of a copy: a plausible slip
RecordedBalances_alias(bal) == aliased_dict(bal)

\* line 188: 'balances': dict(balances)
RecordedBalances(bal) == dict_copy(bal)

\* lines 185-198: the month's projection dict
Projection(window_start, month_end, bal, transactions, amap) ==
    [month |-> <<YearOf(window_start), MonthOf(window_start)>>,
     date |-> month_end,
     balances |-> RecordedBalances(bal),
     transactions |-> transactions,
     net_worth_by_currency |-> NetWorthByCurrency(bal, amap)]

\* line 126 without the day taken off: a plausible slip
MonthEnd_nextstart(window_start) == AddMonths(window_start, 1)

\* line 126
MonthEnd(window_start) == AddDays(AddMonths(window_start, 1), -1)

\* the result dict of line 82
EmptyResult == [projections |-> <<>>, warnings |-> <<>>, starting_balances |-> <<>>]

\* lines 82-120: the result dict, the account lookup, the starting
\* balances, the active plans and their first due dates
Seed ==
    /\ pc = "start"
    /\ LET seeded == SeedBalances(accounts, snapshots, start_date)
           due    == SeedNextDates(active_plans(plans), 1, start_date, <<>>)
       IN  IF due.raised
           THEN /\ pc' = "raised"
                /\ UNCHANGED <<balances, plan_next_dates, current_date, result>>
           ELSE /\ pc' = "loop"
                /\ balances' = seeded
                /\ plan_next_dates' = due.next
                /\ current_date' = start_date
                /\ result' = [projections |-> <<>>,
                              warnings |-> SeedWarnings(accounts, 1, snapshots, start_date),
                              starting_balances |-> seeded]
    /\ month_num' = 0
    /\ UNCHANGED <<accounts, snapshots, plans, start_date, months, args, ret>>

\* lines 124-203: one pass of the for loop over the months
Window ==
    /\ pc = "loop"
    /\ month_num < months
    /\ LET amap      == account_map(accounts)
           month_end == MonthEnd(current_date)
           st == ForPlans(active_plans(plans), 1, amap, month_end,
                          [balances |-> balances,
                           plan_next_dates |-> plan_next_dates,
                           transactions |-> <<>>,
                           warnings |-> result.warnings,
                           raised |-> FALSE])
       IN  IF st.raised
           THEN /\ pc' = "raised"
                /\ UNCHANGED <<balances, plan_next_dates, current_date,
                               month_num, result>>
           ELSE /\ pc' = "loop"
                /\ balances' = st.balances
                /\ plan_next_dates' = st.plan_next_dates
                /\ result' =
                     [result EXCEPT
                        !.projections =
                            Append([i \in DOMAIN @ |-> Observed(@[i], st.balances)],
                                   Projection(current_date, month_end, st.balances,
                                              st.transactions, amap)),
                        !.warnings = st.warnings]
                /\ current_date' = AddMonths(current_date, 1)
                /\ month_num' = month_num + 1
    /\ UNCHANGED <<accounts, snapshots, plans, start_date, months, args, ret>>

\* line 205: return result
Return ==
    /\ pc = "loop"
    /\ month_num = months
    /\ pc' = "done"
    /\ ret' = result
    /\ UNCHANGED <<accounts, snapshots, plans, start_date, months, args,
                   balances, plan_next_dates, current_date, month_num, result>>

---------------------------------------------------------------------------
(* Inputs of the checked calls *)

\* longest snapshot list handed to get_latest_snapshot
MaxSnaps == 3

AccountIds == {"chk", "sav"}

\* 2024 is a leap year
SnapDates == {Date(2024, 1, 1), Date(2024, 1, 31), Date(2024, 2, 15)}

SnapValues == {-1, 3}

SnapshotPool ==
    {Snapshot(a, d, v) : a \in AccountIds, d \in SnapDates, v \in SnapValues}

RECURSIVE SeqsUpTo(_, _)
\* the lists of at most n elements of S
SeqsUpTo(S, n) ==
    IF n = 0 THEN {<<>>}
    ELSE LET shorter == SeqsUpTo(S, n - 1)
         IN  shorter \cup {Append(q, x) : q \in {r \in shorter : Len(r) = n - 1}, x \in S}

AsOfDates == {None, Date(2023, 12, 31), Date(2024, 1, 31), Date(2024, 2, 1), Date(2024, 3, 1)}

\* reference dates: the first, middle and last days of every month of a
\* leap year and of the year before it
FromDates ==
    {Date(y, m, d) : y \in {2023, 2024}, m \in 1..12, d \in {1, 15, 28}}
    \cup {Date(y, m, DaysInMonth(y, m) - k) : y \in {2023, 2024}, m \in 1..12, k \in 0..2}

PlanStarts == {Date(2023, 1, 31), Date(2024, 1, 15), Date(2024, 1, 31)}

\* before every start date of 2024, on a month's last day, after all
EndDates == {Date(2024, 1, 10), Date(2024, 2, 29), Date(2024, 6, 30)}

\* Plan(...) as built by the constructor, and with end_date assigned
SchedulerPlans ==
    LET built == {Plan("p1", "invest", "chk", "sav", 1, "USD", c, s, st) :
                    c \in Cadences, s \in PlanStarts, st \in PlanStatuses}
    IN  built \cup {WithEndDate(p, e) : p \in built, e \in {None} \cup EndDates}

\* variables of project_cash_flow while a helper is the call under check
ProjectIdle ==
    /\ accounts = <<>> /\ start_date = None /\ months = 0
    /\ balances = <<>> /\ plan_next_dates = <<>>
    /\ current_date = None /\ month_num = 0 /\ result = <<>>

---------------------------------------------------------------------------
(* A call of get_latest_snapshot *)

InitLatest ==
    /\ snapshots \in SeqsUpTo(SnapshotPool, MaxSnaps)
    /\ args \in [op : {"get_latest_snapshot"}, account_id : AccountIds,
                 as_of_date : AsOfDates]
    /\ plans = <<>>
    /\ ret = None
    /\ pc = "call"
    /\ ProjectIdle

CallGetLatestSnapshot ==
    /\ pc = "call"
    /\ args.op = "get_latest_snapshot"
    /\ ret' = get_latest_snapshot(snapshots, args.account_id, args.as_of_date)
    /\ pc' = "return"
    /\ UNCHANGED <<accounts, snapshots, plans, start_date, months, args,
                   balances, plan_next_dates, current_date, month_num, result>>

NextLatest == CallGetLatestSnapshot

SpecLatest == InitLatest /\ [][NextLatest]_vars

---------------------------------------------------------------------------
(* A call of get_next_plan_date *)

InitNextDate ==
    /\ plans \in {<<p>> : p \in SchedulerPlans}
    /\ args \in [op : {"get_next_plan_date"}, from_date : FromDates]
    /\ snapshots = <<>>
    /\ ret = None
    /\ pc = "call"
    /\ ProjectIdle

CallGetNextPlanDate ==
    /\ pc = "call"
    /\ args.op = "get_next_plan_date"
    /\ ret' = get_next_plan_date(plans[1], args.from_date)
    /\ pc' = "return"
    /\ UNCHANGED <<accounts, snapshots, plans, start_date, months, args,
                   balances, plan_next_dates, current_date, month_num, result>>

NextNextDate == CallGetNextPlanDate

SpecNextDate == InitNextDate /\ [][NextNextDate]_vars

---------------------------------------------------------------------------
(* Properties of get_latest_snapshot *)

Returned(op) == pc = "return" /\ args.op = op

\* the snapshots of the queried account that qualify under the query
Qualifying ==
    {i \in 1..Len(snapshots) :
        /\ snapshots[i].account_id = args.account_id
        /\ (args.as_of_date # None => snapshots[i].date <= args.as_of_date)}

\* C1: for every snapshot list in any insertion order, get_latest_snapshot
\* returns a snapshot of the account whose date is the maximum among the
\* account's snapshots (those dated <= as_of_date when one is given); it
\* returns None exactly when no snapshot of the account qualifies, and it
\* returns one of the two, never an error.
C1_LatestIsMaxQualifying ==
    Returned("get_latest_snapshot") =>
        /\ ret \in {None} \cup Qualifying
        /\ (ret = None) <=> (Qualifying = {})
        /\ ret # None =>
              \A j \in Qualifying : snapshots[j].date <= snapshots[ret].date

\* an as_of_date cuts off a later snapshot of the account, and the snapshot
\* returned is followed in the list by an older qualifying one
C1_Witness ==
    /\ Returned("get_latest_snapshot")
    /\ args.as_of_date # None
    /\ ret # None
    /\ \E j \in Qualifying : j > ret /\ snapshots[j].date < snapshots[ret].date
    /\ \E k \in 1..Len(snapshots) :
          /\ snapshots[k].account_id = args.account_id
          /\ snapshots[k].date > args.as_of_date

---------------------------------------------------------------------------
(* Properties of get_next_plan_date *)

\* months since year 0 of the month a date lies in
MonthIndex(d) == YearOf(d) * 12 + MonthOf(d) - 1

\* d is k calendar months after from_date: the same day of the month, or
\* the target month's last day when it has no such day
IsMonthsAfter(from_date, k, d) ==
    /\ d >= 1
    /\ MonthIndex(d) = MonthIndex(from_date) + k
    /\ DayOf(d) = Min(DayOf(from_date), DaysInMonth(YearOf(d), MonthOf(d)))

\* d is from_date plus the cadence step
IsCadenceStepAfter(cadence, from_date, d) ==
    CASE cadence = "monthly"   -> IsMonthsAfter(from_date, 1, d)
      [] cadence = "quarterly" -> IsMonthsAfter(from_date, 3, d)
      [] cadence = "annual"    -> IsMonthsAfter(from_date, 12, d)
      [] cadence = "biweekly"  -> d = from_date + 14
      [] cadence = "weekly"    -> d = from_date + 7

\* C4: get_next_plan_date returns None for a paused plan, for every
\* reference date and every start_date, end_date and cadence.
C4_PausedNeverSchedules ==
    (Returned("get_next_plan_date") /\ plans[1].status = "paused") => ret = None

\* a paused plan asked from before its start date, and one asked from after
C4_Witness ==
    /\ Returned("get_next_plan_date")
    /\ plans[1].status = "paused"
    /\ args.from_date < plans[1].start_date
    /\ ret = None

\* C5: for an active plan and a from_date strictly before plan.start_date,
\* get_next_plan_date returns exactly plan.start_date.
C5_BeforeStartGivesStart ==
    (/\ Returned("get_next_plan_date")
     /\ plans[1].status = "active"
     /\ args.from_date < plans[1].start_date) => ret = plans[1].start_date

\* a plan as the constructor builds it, asked from before its start date
C5_Witness ==
    /\ Returned("get_next_plan_date")
    /\ plans[1].status = "active"
    /\ plans[1].end_date = NoAttr
    /\ args.from_date < plans[1].start_date
    /\ ret = plans[1].start_date

\* C6: for an active plan without end_date and a from_date >= start_date,
\* get_next_plan_date returns from_date plus the cadence step, a valid date
\* (a month or year step onto a missing day gives the month's last day).
C6_StepWithoutEndDate ==
    (/\ Returned("get_next_plan_date")
     /\ plans[1].status = "active"
     /\ plans[1].end_date \in {NoAttr, None}
     /\ args.from_date >= plans[1].start_date)
    => IsCadenceStepAfter(plans[1].cadence, args.from_date, ret)

---------------------------------------------------------------------------
(* A call of project_cash_flow *)

\* longest horizon projected
MaxMonths == 3

Checking == Account("chk", "Checking", "cash", "USD")

Savings(currency) == Account("sav", "Savings", "investment", currency)

\* account ids are unique within a list (Account.id identifies the account)
AccountLists ==
    {<<>>, <<Checking>>, <<Checking, Savings("USD")>>, <<Savings("EUR"), Checking>>}

StartDates == {Date(2024, 1, 1), Date(2024, 1, 31)}

ProjSnapshotLists ==
    {<<>>,
     <<Snapshot("chk", Date(2024, 1, 31), 1), Snapshot("chk", Date(2024, 1, 1), 3)>>,
     <<Snapshot("sav", Date(2024, 1, 1), 5), Snapshot("chk", Date(2024, 2, 15), 7)>>}

\* "ghost" is the id of no account
Endpoints ==
    {<<"chk", "sav">>, <<"sav", "chk">>, <<"chk", "chk">>,
     <<"ghost", "sav">>, <<"chk", "ghost">>}

ProjPlanStarts == {Date(2023, 12, 15), Date(2024, 1, 31), Date(2024, 2, 10)}

ProjEndDates == {Date(2024, 1, 10), Date(2024, 2, 29)}

\* plans as the constructor builds them, and with end_date assigned
ProjPlans(id, amount) ==
    LET built == {Plan(id, "invest", e[1], e[2], amount, "USD", c, s, st) :
                    e \in Endpoints, c \in Cadences, s \in ProjPlanStarts,
                    st \in PlanStatuses}
    IN  built \cup {WithEndDate(p, e) : p \in built, e \in {None} \cup ProjEndDates}

\* the plans of one-plan lists: paused ones between the two accounts only
SinglePlans ==
    {p \in ProjPlans("p1", 2) :
        p.status = "paused" => <<p.from_account_id, p.to_account_id>> = <<"chk", "sav">>}

\* the first plan of a two-plan list: paused ones monthly and between the
\* two accounts only
FirstOfTwo ==
    {p \in ProjPlans("p1", 2) :
        /\ p.status = "paused" =>
              /\ <<p.from_account_id, p.to_account_id>> = <<"chk", "sav">>
              /\ p.cadence = "monthly"
        /\ <<p.from_account_id, p.to_account_id>>
              \in {<<"chk", "sav">>, <<"sav", "chk">>, <<"ghost", "sav">>}
        /\ p.cadence \in {"biweekly", "monthly"}
        /\ p.end_date # Date(2024, 1, 10)}

\* the second plan of a two-plan list: it may share the first plan's id
SecondPlans ==
    {WithEndDate(Plan(id, "invest", e[1], e[2], 1, "USD", c, Date(2024, 1, 31), "active"), None) :
        id \in {"p1", "p2"}, e \in {<<"chk", "sav">>, <<"ghost", "sav">>},
        c \in {"weekly", "monthly"}}

PlanLists ==
    {<<>>} \cup {<<p>> : p \in SinglePlans}
           \cup {<<p, q>> : p \in FirstOfTwo, q \in SecondPlans}

\* a monthly plan on the 30th projected from the 31st of the month before:
\* the two day-of-month clamps at the end of February meet
ClampedStart == Date(2023, 12, 31)

ClampedPlanLists ==
    {<<WithEndDate(Plan("p1", "invest", "chk", "sav", 2, "USD", "monthly", Date(2024, 1, 30), "active"), None)>>}

Init ==
    /\ accounts \in AccountLists
    /\ snapshots \in ProjSnapshotLists
    /\ \E call \in (PlanLists \X StartDates) \cup (ClampedPlanLists \X {ClampedStart}) :
          plans = call[1] /\ start_date = call[2]
    /\ months \in 0..MaxMonths
    /\ args = [op |-> "project_cash_flow"]
    /\ ret = None
    /\ pc = "start"
    /\ balances = <<>>
    /\ plan_next_dates = <<>>
    /\ current_date = None
    /\ month_num = 0
    /\ result = EmptyResult

Next == Seed \/ Window \/ Return

Spec == Init /\ [][Next]_vars

---------------------------------------------------------------------------
(* A call of project_cash_flow over many snapshot lists *)

\* longest snapshot list handed to project_cash_flow here
MaxSeedSnaps == 2

SeedPlanLists ==
    {<<>>,
     <<WithEndDate(Plan("p1", "invest", "chk", "sav", 2, "USD", "monthly", Date(2024, 1, 31), "active"), None)>>,
     <<Plan("p1", "invest", "chk", "sav", 2, "USD", "monthly", Date(2023, 12, 15), "active")>>}

InitSeed ==
    /\ accounts \in AccountLists
    /\ snapshots \in SeqsUpTo(SnapshotPool, MaxSeedSnaps)
    /\ plans \in SeedPlanLists
    /\ start_date \in StartDates
    /\ months \in {0, 1}
    /\ args = [op |-> "project_cash_flow"]
    /\ ret = None
    /\ pc = "start"
    /\ balances = <<>>
    /\ plan_next_dates = <<>>
    /\ current_date = None
    /\ month_num = 0
    /\ result = EmptyResult

SpecSeed == InitSeed /\ [][Next]_vars

---------------------------------------------------------------------------
(* Properties of project_cash_flow *)

\* the working state exists: seeding is over and no exception ended the call
Seeded == args.op = "project_cash_flow" /\ pc \in {"loop", "done"}

RECURSIVE SumAmounts(_, _, _, _)
\* sum of tx.amount over the transactions tx of txs, from the k-th on,
\* whose field `side` (from_account or to_account) is account a
SumAmounts(txs, k, side, a) ==
    IF k > Len(txs) THEN 0
    ELSE (IF txs[k][side] = a THEN txs[k].amount ELSE 0)
         + SumAmounts(txs, k + 1, side, a)

RECURSIVE UpToMonth(_)
\* the transactions recorded in result.projections[1..i], in order
UpToMonth(i) ==
    IF i = 0 THEN <<>> ELSE UpToMonth(i - 1) \o result.projections[i].transactions

C3_NeverRaises ==
    args.op = "project_cash_flow" => pc # "raised"

\* the plans of the input that a recorded transaction can come from
PlansOf(tx) ==
    {k \in DOMAIN plans :
        /\ plans[k].id = tx.plan_id
        /\ plans[k].from_account_id = tx.from_account
        /\ plans[k].to_account_id = tx.to_account
        /\ plans[k].amount = tx.amount}

\* C8: no transaction of a plan that has an end_date is recorded with a
\* date later than that end_date, for every plan (also one whose end_date
\* precedes its start_date or the projection start_date) and every horizon.
C8_NoTransactionAfterEndDate ==
    Seeded =>
        \A i \in DOMAIN result.projections :
            \A j \in DOMAIN result.projections[i].transactions :
                LET tx == result.projections[i].transactions[j] IN
                \A k \in PlansOf(tx) :
                    plans[k].end_date >= 1 => tx.date <= plans[k].end_date

\* the snapshots of account id dated on or before start_date
OnOrBeforeStart(id) ==
    {i \in DOMAIN snapshots :
        snapshots[i].account_id = id /\ snapshots[i].date <= start_date}

\* the positions in result.warnings of the warning w
WarningsEqual(w) == {k \in DOMAIN result.warnings : result.warnings[k] = w}

\* C9: project_cash_flow seeds every account's starting balance with the
\* value of its latest snapshot dated <= start_date (later snapshots are
\* ignored); an account with no such snapshot is seeded with 0 and exactly
\* one warning naming that account and the start date is emitted;
\* starting_balances has exactly one entry per account.
C9_StartingBalancesFromLatestSnapshot ==
    Seeded =>
        /\ DOMAIN result.starting_balances = {accounts[k].id : k \in DOMAIN accounts}
        /\ Cardinality(DOMAIN result.starting_balances) = Len(accounts)
        /\ \A k \in DOMAIN accounts :
              LET id == accounts[k].id
                  Q  == OnOrBeforeStart(id)
              IN  /\ Q # {} =>
                        \E i \in Q :
                            /\ \A j \in Q : snapshots[j].date <= snapshots[i].date
                            /\ result.starting_balances[id] = snapshots[i].value
                  /\ Q = {} =>
                        /\ result.starting_balances[id] = 0
                        /\ Cardinality(WarningsEqual(
                               [kind |-> "no_snapshot", account |-> id,
                                date |-> start_date])) = 1

\* one account is seeded from its older snapshot, listed after a newer one
\* that is dated after start_date, and another account, without a snapshot
\* on or before start_date, is seeded with 0 and warned about
C9_Witness ==
    /\ Seeded
    /\ \E k1, k2 \in DOMAIN accounts :
          /\ \E i \in OnOrBeforeStart(accounts[k1].id) :
                \E j \in DOMAIN snapshots :
                    /\ j < i
                    /\ snapshots[j].account_id = accounts[k1].id
                    /\ snapshots[j].date > start_date
                    /\ snapshots[j].value # snapshots[i].value
                    /\ result.starting_balances[accounts[k1].id] = snapshots[i].value
          /\ OnOrBeforeStart(accounts[k2].id) = {}
          /\ result.starting_balances[accounts[k2].id] = 0
          /\ WarningsEqual([kind |-> "no_snapshot", account |-> accounts[k2].id,
                            date |-> start_date]) # {}

\* plan p names an account that is not in the account list
Dangling(p) ==
    LET ids == {accounts[k].id : k \in DOMAIN accounts}
    IN  p.from_account_id \notin ids \/ p.to_account_id \notin ids

\* the warnings about an unknown account of the plan with this id
UnknownAccountWarnings(id) ==
    {k \in DOMAIN result.warnings :
        /\ result.warnings[k].kind \in {"unknown_from", "unknown_to"}
        /\ result.warnings[k].plan = id}

\* active plan p has come due in a window processed so far
HasFallenDue(p) ==
    LET first == IF p.start_date >= start_date THEN p.start_date
                 ELSE get_next_plan_date(p, start_date - 1)
    IN  /\ p.status = "active"
        /\ pc \in {"loop", "done"}
        /\ month_num >= 1
        /\ first >= 1
        /\ first <= current_date - 1

\* C10: a plan whose from or to account is not among the accounts produces
\* no transaction and changes no balance in any projected month; it
\* produces exactly one warning, at the first window in which it falls due,
\* and is not retried; the projection still produces all `months` entries.
\* (Stated for a plan whose id no other plan of the list has.)
C10_DanglingPlanSkipped ==
    args.op = "project_cash_flow" =>
        \A k \in DOMAIN plans :
            (/\ Dangling(plans[k])
             /\ \A j \in DOMAIN plans : plans[j].id = plans[k].id => j = k)
            => /\ pc # "raised"
               /\ pc = "done" => Len(result.projections) = months
               /\ \A i \in DOMAIN result.projections :
                     /\ \A j \in DOMAIN result.projections[i].transactions :
                           result.projections[i].transactions[j].plan_id # plans[k].id
                     /\ Len(plans) = 1 =>
                           result.projections[i].balances.items = result.starting_balances
               /\ Cardinality(UnknownAccountWarnings(plans[k].id))
                     = IF HasFallenDue(plans[k]) THEN 1 ELSE 0

---------------------------------------------------------------------------
(* Negative balances *)

\* the balance of account a once the first k transactions of txs are applied
\* to the starting balances
BalanceAfter(txs, k, a) ==
    result.starting_balances[a]
    - SumAmounts(SubSeq(txs, 1, k), 1, "from_account", a)
    + SumAmounts(SubSeq(txs, 1, k), 1, "to_account", a)

RECURSIVE Overdrafts(_, _)
\* one 'Negative balance' warning for each transaction of txs, from the
\* k-th on, that leaves its from_account below zero, in order
Overdrafts(txs, k) ==
    IF k > Len(txs) THEN <<>>
    ELSE LET tx    == txs[k]
             after == BalanceAfter(txs, k, tx.from_account)
         IN  (IF after < 0
              THEN <<[kind |-> "negative",
                      account |-> account_map(accounts)[tx.from_account].name,
                      balance |-> after, plan |-> tx.plan_id, date |-> tx.date]>>
              ELSE <<>>) \o Overdrafts(txs, k + 1)

\* the 'Negative balance' warnings emitted so far, in order
NegativeWarnings == SelectSeq(result.warnings, LAMBDA w : w.kind = "negative")

---------------------------------------------------------------------------
(* Paused plans *)

\* the plan list with its paused plans taken out
WithoutPaused(ps) == SelectSeq(ps, LAMBDA p : p.status # "paused")

\* what lines 106-120 compute from the plan list ps
SeedOutcome(ps) == SeedNextDates(active_plans(ps), 1, start_date, <<>>)

\* what lines 132-182 make of the current working state for the plan list ps
WindowOutcome(ps) ==
    ForPlans(active_plans(ps), 1, account_map(accounts), MonthEnd(current_date),
             [balances |-> balances, plan_next_dates |-> plan_next_dates,
              transactions |-> <<>>, warnings |-> result.warnings,
              raised |-> FALSE])

\* a paused plan whose id no active plan of the list has
PausedAlone(p) ==
    /\ p.status = "paused"
    /\ \A j \in DOMAIN plans : plans[j].status = "active" => plans[j].id # p.id

\* a paused plan has left no trace: no due date, transaction or warning
NoTraceOfPaused ==
    Seeded =>
        \A k \in DOMAIN plans :
            PausedAlone(plans[k]) =>
                /\ plans[k].id \notin DOMAIN plan_next_dates
                /\ \A i \in DOMAIN result.projections :
                      \A j \in DOMAIN result.projections[i].transactions :
                          result.projections[i].transactions[j].plan_id # plans[k].id
                /\ \A w \in DOMAIN result.warnings :
                      result.warnings[w].kind # "no_snapshot"
                          => result.warnings[w].plan # plans[k].id

\* every step of the call is the step the same call takes on the plan list
\* with the paused plans taken out
StepsAsWithoutPaused ==
    /\ pc = "start" =>
          LET due == SeedOutcome(WithoutPaused(plans)) IN
          IF due.raised THEN pc' = "raised"
          ELSE pc' = "loop" /\ plan_next_dates' = due.next
    /\ (pc = "loop" /\ month_num < months) =>
          LET st == WindowOutcome(WithoutPaused(plans)) IN
          IF st.raised THEN pc' = "raised"
          ELSE /\ pc' = "loop"
               /\ balances' = st.balances
               /\ plan_next_dates' = st.plan_next_dates
               /\ result'.warnings = st.warnings
               /\ Len(result'.projections) = Len(result.projections) + 1
               /\ LET entry == result'.projections[Len(result'.projections)]
                  IN  /\ entry.transactions = st.transactions
                      /\ entry.balances.items = st.balances

\* C12: a paused plan is never executed: it gets no due date and produces
\* no transaction and no warning (so, by C2, no balance change), and the
\* projection proceeds step by step exactly as the projection of the same
\* input with the paused plans removed.
C12_PausedPlansIgnored ==
    [](args.op = "project_cash_flow" => NoTraceOfPaused)
    /\ [][args.op = "project_cash_flow" => StepsAsWithoutPaused]_vars

\* a returned projection of a paused plan, due in the first month, listed
\* before an active plan that has executed and warned
C12_Witness ==
    /\ Seeded /\ pc = "done"
    /\ Len(plans) = 2
    /\ PausedAlone(plans[1])
    /\ plans[1].start_date = start_date
    /\ plans[2].status = "active"
    /\ Len(result.projections) >= 2
    /\ result.projections[1].transactions # <<>>
    /\ NegativeWarnings # <<>>

---------------------------------------------------------------------------
(* First due dates *)

\* the recorded transactions of the plan at position k of the list
TransactionsOf(k) ==
    SelectSeq(UpToMonth(Len(result.projections)),
              LAMBDA tx : k \in PlansOf(tx))

\* C13: for every active plan, the first pending due date project_cash_flow
\* uses is plan.start_date when plan.start_date >= start_date, and
\* otherwise, when there is one, a date on or after start_date; the plan's
\* first transaction carries that date, and no transaction is dated before
\* start_date.
C13_FirstDueDate ==
    Seeded =>
        /\ \A k \in DOMAIN plans :
              plans[k].status = "active" =>
                  /\ (month_num = 0 /\ plans[k].start_date >= start_date) =>
                        /\ plans[k].id \in DOMAIN plan_next_dates
                        /\ plan_next_dates[plans[k].id] = plans[k].start_date
                  /\ (month_num = 0 /\ plans[k].start_date < start_date
                         /\ plans[k].id \in DOMAIN plan_next_dates) =>
                        plan_next_dates[plans[k].id] >= start_date
                  /\ (plans[k].start_date >= start_date /\ TransactionsOf(k) # <<>>) =>
                        TransactionsOf(k)[1].date = plans[k].start_date
        /\ \A i \in DOMAIN result.projections :
              \A j \in DOMAIN result.projections[i].transactions :
                  result.projections[i].transactions[j].date >= start_date

---------------------------------------------------------------------------
(* One transaction a month *)

\* the first due date of plan p: lines 113-120
FirstDue(p) ==
    IF p.start_date >= start_date THEN p.start_date
    ELSE get_next_plan_date(p, AddDays(start_date, -1))

\* an active monthly plan without an end date, between two accounts of the
\* list, whose first due date falls in the first window
MonthlyFromFirstWindow(p) ==
    /\ p.status = "active"
    /\ p.cadence = "monthly"
    /\ p.end_date \in {NoAttr, None}
    /\ ~Dangling(p)
    /\ FirstDue(p) >= start_date
    /\ FirstDue(p) <= MonthEnd(start_date)

\* C14: the projection of an active monthly plan without end_date, whose
\* two accounts exist and whose first due date falls in the first window,
\* runs through and lists exactly one transaction of that plan in every
\* projected month.
C14_MonthlyPlanOncePerMonth ==
    args.op = "project_cash_flow" =>
        \A k \in DOMAIN plans :
            MonthlyFromFirstWindow(plans[k]) =>
                /\ pc # "raised"
                /\ \A i \in DOMAIN result.projections :
                      Len(SelectSeq(result.projections[i].transactions,
                                    LAMBDA tx : k \in PlansOf(tx))) = 1

---------------------------------------------------------------------------
(* finance_calcs.py: calculate_net_worth *)

\* line 58 with = for +=: a plausible slip
AddTo_overwrite(d, k, v) == Put(d, k, v)

\* d[k] += v on a defaultdict(float)
AddTo(d, k, v) == Put(d, k, (IF k \in DOMAIN d THEN d[k] ELSE 0) + v)

\* line 59: by_kind[kind][currency] += v on a defaultdict of defaultdicts
AddToKind(d, kind, currency, v) ==
    Put(d, kind, AddTo(IF kind \in DOMAIN d THEN d[kind] ELSE <<>>, currency, v))

\* lines 50-51 without the append: a plausible slip
MissingAccount_dropped(res, account) == res

\* lines 50-51: the account is listed as missing and nothing else changes
MissingAccount(res, account) ==
    [res EXCEPT !.missing_accounts = Append(@, account.id)]

\* lines 54-55 without the comparison: a plausible slip
LatestDate_last(tracked, d) == d

\* lines 54-55: the later of the date tracked so far and d
LatestDate(tracked, d) == IF tracked = None \/ d > tracked THEN d ELSE tracked

\* lines 62-70: the detail row of an account (the note is left out)
AccountDetail(account, latest) ==
    [id |-> account.id, name |-> account.name, kind |-> account.kind,
     currency |-> account.currency, balance |-> latest.value, date |-> latest.date]

RECURSIVE NetWorthLoop(_, _, _, _, _)
\* lines 46-70: the for loop over the accounts, from the k-th on
NetWorthLoop(accs, k, snaps, as_of_date, res) ==
    IF k > Len(accs) THEN res
    ELSE LET account == accs[k]
             latest  == get_latest_snapshot(snaps, account.id, as_of_date)
         IN  NetWorthLoop(accs, k + 1, snaps, as_of_date,
                 IF latest = None THEN MissingAccount(res, account)
                 ELSE [res EXCEPT
                         !.as_of_date = LatestDate(@, snaps[latest].date),
                         !.by_currency = AddTo(@, account.currency, snaps[latest].value),
                         !.by_kind = AddToKind(@, account.kind, account.currency,
                                               snaps[latest].value),
                         !.accounts = Append(@, AccountDetail(account, snaps[latest]))])

\* line 81 for a single currency only: a plausible slip
Total_one(by_currency) ==
    IF DOMAIN by_currency = {} THEN 0
    ELSE by_currency[CHOOSE c \in DOMAIN by_currency : TRUE]

\* line 81: sum(result['by_currency'].values())
Total(by_currency) == SumOver(by_currency, DOMAIN by_currency)

\* lines 33-40 with the result dict kept from the call before (a
\* module-level dict): a plausible slip
calculate_net_worth_kept(accs, snaps, as_of_date) ==
    LET res == NetWorthLoop(accs, 1, snaps, as_of_date,
                            IF result = <<>>
                            THEN [total |-> 0, by_currency |-> <<>>, by_kind |-> <<>>,
                                  accounts |-> <<>>, as_of_date |-> None,
                                  missing_accounts |-> <<>>]
                            ELSE result)
    IN  [res EXCEPT !.total = Total(res.by_currency)]

\* lines 33-83
calculate_net_worth(accs, snaps, as_of_date) ==
    LET res == NetWorthLoop(accs, 1, snaps, as_of_date,
                            [total |-> 0, by_currency |-> <<>>, by_kind |-> <<>>,
                             accounts |-> <<>>, as_of_date |-> None,
                             missing_accounts |-> <<>>])
    IN  [res EXCEPT !.total = Total(res.by_currency)]

---------------------------------------------------------------------------
(* A call of calculate_net_worth *)

RainyDay == Account("sav", "Rainy day", "cash", "USD")

\* no snapshot is ever of this account
Brokerage == Account("brk", "Brokerage", "investment", "USD")

NetWorthAccountLists ==
    AccountLists \cup {<<Checking, RainyDay>>,
                       <<Brokerage, Savings("USD"), Checking>>,
                       <<Savings("EUR"), Brokerage, Checking>>}

InitNetWorth ==
    /\ accounts \in NetWorthAccountLists
    /\ snapshots \in SeqsUpTo(SnapshotPool, MaxSnaps)
    /\ args \in [op : {"calculate_net_worth"}, as_of_date : AsOfDates]
    /\ plans = <<>>
    /\ ret = None
    /\ pc = "call"
    /\ start_date = None /\ months = 0
    /\ balances = <<>> /\ plan_next_dates = <<>>
    /\ current_date = None /\ month_num = 0 /\ result = <<>>

CallCalculateNetWorth ==
    /\ pc = "call"
    /\ args.op = "calculate_net_worth"
    /\ ret' = calculate_net_worth(accounts, snapshots, args.as_of_date)
    /\ pc' = "return"
    /\ UNCHANGED <<accounts, snapshots, plans, start_date, months, args,
                   balances, plan_next_dates, current_date, month_num, result>>

NextNetWorth == CallCalculateNetWorth

SpecNetWorth == InitNetWorth /\ [][NextNetWorth]_vars

---------------------------------------------------------------------------
(* Properties of calculate_net_worth *)

\* the snapshots of account id that qualify for the call's as_of_date
QualifyingOf(id) ==
    {i \in DOMAIN snapshots :
        /\ snapshots[i].account_id = id
        /\ (args.as_of_date # None => snapshots[i].date <= args.as_of_date)}

\* the accounts of the list that have a qualifying snapshot
Resolved == {k \in DOMAIN accounts : QualifyingOf(accounts[k].id) # {}}

\* the value of the latest qualifying snapshot of the k-th account: of the
\* first listed among those of the latest date
ResolvedValue(k) ==
    LET Q == QualifyingOf(accounts[k].id)
        i == CHOOSE i \in Q :
                 \A j \in Q : \/ snapshots[j].date < snapshots[i].date
                              \/ (snapshots[j].date = snapshots[i].date /\ i <= j)
    IN  snapshots[i].value

RECURSIVE SumValues(_)
\* the sum of ResolvedValue over a set of accounts
SumValues(K) ==
    IF K = {} THEN 0
    ELSE LET k == CHOOSE x \in K : TRUE IN ResolvedValue(k) + SumValues(K \ {k})

\* C15: the total calculate_net_worth returns is the plain sum of its
\* by_currency values, with no conversion between currencies: the sum of
\* the resolved values of all accounts, negative ones included; for an
\* empty account list or snapshot list total is 0 and by_currency is empty.
C15_TotalIsSumOfCurrencies ==
    Returned("calculate_net_worth") =>
        /\ ret.total = SumOver(ret.by_currency, DOMAIN ret.by_currency)
        /\ ret.total = SumValues(Resolved)
        /\ (accounts = <<>> \/ snapshots = <<>>) =>
              ret.total = 0 /\ ret.by_currency = <<>>

\* two currencies are held, one with a negative and one with a positive
\* value, and the total is their sum
C15_Witness ==
    /\ Returned("calculate_net_worth")
    /\ DOMAIN ret.by_currency = {"USD", "EUR"}
    /\ ret.by_currency["USD"] < 0
    /\ ret.by_currency["EUR"] > 0
    /\ ret.total = ret.by_currency["USD"] + ret.by_currency["EUR"]
    /\ ret.total # 0

\* the positions in the account list, in order, of the accounts that have
\* (with = TRUE) or lack (with = FALSE) a qualifying snapshot
PositionsResolved(with) ==
    SelectSeq([k \in DOMAIN accounts |-> k], LAMBDA k : (k \in Resolved) = with)

\* C16: missing_accounts lists, in input order, the ids of exactly the
\* accounts without a qualifying snapshot; the detail rows are, in input
\* order, one row for each of the other accounts, carrying the account's
\* attributes and its resolved snapshot's value; together they partition
\* the account list, and a missing account adds to no sum.
C16_MissingAndDetailsPartition ==
    Returned("calculate_net_worth") =>
        LET missing == PositionsResolved(FALSE)
            found   == PositionsResolved(TRUE)
        IN  /\ ret.missing_accounts = [i \in DOMAIN missing |-> accounts[missing[i]].id]
            /\ Len(ret.accounts) = Len(found)
            /\ \A i \in DOMAIN found :
                  LET account == accounts[found[i]]
                      row     == ret.accounts[i]
                  IN  /\ row.id = account.id /\ row.name = account.name
                      /\ row.kind = account.kind /\ row.currency = account.currency
                      /\ row.balance = ResolvedValue(found[i])
                      /\ \E s \in QualifyingOf(account.id) :
                            /\ snapshots[s].date = row.date
                            /\ snapshots[s].value = row.balance
            /\ Len(ret.missing_accounts) + Len(ret.accounts) = Len(accounts)
            /\ ret.total = SumValues(Resolved)

\* of three accounts the first has no snapshot at all, the second only a
\* snapshot after the as_of_date, and the third is resolved
C16_Witness ==
    /\ Returned("calculate_net_worth")
    /\ Len(accounts) = 3
    /\ args.as_of_date # None
    /\ \A i \in DOMAIN snapshots : snapshots[i].account_id # accounts[1].id
    /\ \E i \in DOMAIN snapshots :
          /\ snapshots[i].account_id = accounts[2].id
          /\ snapshots[i].date > args.as_of_date
    /\ ret.missing_accounts = <<accounts[1].id, accounts[2].id>>
    /\ Len(ret.accounts) = 1
    /\ ret.accounts[1].id = accounts[3].id
    /\ ret.accounts[1].balance # 0

\* the accounts with a qualifying snapshot that have currency c
ResolvedIn(c) == {k \in Resolved : accounts[k].currency = c}

\* the accounts with a qualifying snapshot that have kind kd and currency c
ResolvedOf(kd, c) == {k \in ResolvedIn(c) : accounts[k].kind = kd}

\* C17: by_currency has one key for each currency of an account that has
\* a qualifying snapshot and maps it to the sum of the resolved values of
\* those accounts; by_kind has one key for each kind of such an account
\* and, under it, one key per currency of the accounts of that kind, with
\* the sum of their resolved values; for every currency the by_kind
\* values sum to the by_currency value.
C17_SumsByCurrencyAndKind ==
    Returned("calculate_net_worth") =>
        /\ DOMAIN ret.by_currency = {accounts[k].currency : k \in Resolved}
        /\ \A c \in DOMAIN ret.by_currency :
              /\ ret.by_currency[c] = SumValues(ResolvedIn(c))
              /\ ret.by_currency[c] =
                    SumOver([kd \in DOMAIN ret.by_kind |->
                                IF c \in DOMAIN ret.by_kind[kd]
                                THEN ret.by_kind[kd][c] ELSE 0],
                            DOMAIN ret.by_kind)
        /\ DOMAIN ret.by_kind = {accounts[k].kind : k \in Resolved}
        /\ \A kd \in DOMAIN ret.by_kind :
              /\ DOMAIN ret.by_kind[kd] =
                    {accounts[k].currency : k \in {r \in Resolved : accounts[r].kind = kd}}
              /\ \A c \in DOMAIN ret.by_kind[kd] :
                    ret.by_kind[kd][c] = SumValues(ResolvedOf(kd, c))

\* two cash accounts in one currency, one of them overdrawn, sum under
\* one key, and no other kind has a key
C17_Witness ==
    /\ Returned("calculate_net_worth")
    /\ Len(accounts) >= 2
    /\ Cardinality(ResolvedOf("cash", "USD")) = 2
    /\ \E k \in ResolvedOf("cash", "USD") : ResolvedValue(k) < 0
    /\ \E k \in ResolvedOf("cash", "USD") : ResolvedValue(k) > 0
    /\ ret.by_kind["cash"]["USD"] = 2
    /\ DOMAIN ret.by_kind = {"cash"}

\* C18: the as_of_date calculate_net_worth returns is the latest date
\* among the snapshots it resolved, not the as_of_date asked for; it is
\* None when no account has a qualifying snapshot, and it is never later
\* than the as_of_date asked for.
C18_AsOfDateIsLatestResolved ==
    Returned("calculate_net_worth") =>
        /\ (Resolved = {}) <=> (ret.as_of_date = None)
        /\ Resolved # {} =>
              /\ \E i \in DOMAIN ret.accounts : ret.accounts[i].date = ret.as_of_date
              /\ \A i \in DOMAIN ret.accounts : ret.accounts[i].date <= ret.as_of_date
              /\ \A k \in Resolved : \A s \in QualifyingOf(accounts[k].id) :
                    snapshots[s].date <= ret.as_of_date
              /\ args.as_of_date # None => ret.as_of_date <= args.as_of_date

\* the first account's resolved snapshot is the latest one, the second's
\* is older, a third snapshot lies after the as_of_date asked for, and the
\* date returned is earlier than the one asked for
C18_Witness ==
    /\ Returned("calculate_net_worth")
    /\ args.as_of_date # None
    /\ Len(ret.accounts) = 2
    /\ ret.accounts[1].date > ret.accounts[2].date
    /\ ret.as_of_date = ret.accounts[1].date
    /\ ret.as_of_date < args.as_of_date
    /\ \E i \in DOMAIN snapshots :
          /\ snapshots[i].date > args.as_of_date
          /\ snapshots[i].account_id = accounts[1].id

---------------------------------------------------------------------------
(* Net worth of a projected month *)

\* the ids of the accounts of the list that have currency c
AccountsIn(c) == {accounts[k].id : k \in {j \in DOMAIN accounts : accounts[j].currency = c}}

\* C19: in every projected month net_worth_by_currency has one key for
\* each currency of an account of the list and maps it to the sum of the
\* month's recorded balances of the accounts of that currency; no balance
\* is counted under another currency.
C19_NetWorthPerCurrency ==
    Seeded =>
        \A i \in DOMAIN result.projections :
            LET entry == result.projections[i] IN
            /\ DOMAIN entry.net_worth_by_currency =
                  {accounts[k].currency : k \in DOMAIN accounts}
            /\ \A c \in DOMAIN entry.net_worth_by_currency :
                  entry.net_worth_by_currency[c] =
                      SumOver(entry.balances.items, AccountsIn(c))

\* a returned projection over a USD and a EUR account whose second month,
\* after transfers out of the USD account, shows a negative USD sum and a
\* different, positive EUR sum
C19_Witness ==
    /\ Seeded /\ pc = "done"
    /\ Len(result.projections) >= 2
    /\ result.projections[2].transactions # <<>>
    /\ LET nw == result.projections[2].net_worth_by_currency
       IN  /\ DOMAIN nw = {"USD", "EUR"}
           /\ nw["USD"] < 0
           /\ nw["EUR"] > 0
           /\ nw["EUR"] # -nw["USD"]
           /\ nw # result.projections[1].net_worth_by_currency

---------------------------------------------------------------------------
(* domain.py: validate_plan_accounts *)

PlanTypes == {"invest", "save", "withdraw"}

\* lines 236-240: the kind rules of an invest plan
KindErrors(plan, from_account, to_account) ==
    IF plan.type = "invest"
    THEN (IF from_account.kind # "cash"
          THEN <<[rule |-> "from_kind", plan |-> plan.id, got |-> from_account.kind]>>
          ELSE <<>>)
         \o (IF to_account.kind # "investment"
             THEN <<[rule |-> "to_kind", plan |-> plan.id, got |-> to_account.kind]>>
             ELSE <<>>)
    ELSE <<>>

\* lines 243-246: the currency rules
CurrencyErrors(plan, from_account, to_account) ==
    (IF from_account.currency # plan.currency
     THEN <<[rule |-> "from_currency", plan |-> plan.id,
             plan_currency |-> plan.currency, account_currency |-> from_account.currency]>>
     ELSE <<>>)
    \o (IF to_account.currency # plan.currency
        THEN <<[rule |-> "to_currency", plan |-> plan.id,
                plan_currency |-> plan.currency, account_currency |-> to_account.currency]>>
        ELSE <<>>)

\* lines 224-233 without the first return: a plausible slip
validate_plan_accounts_on(plan, accs) ==
    LET accounts_by_id == account_map(accs)
        no_from == IF plan.from_account_id \notin DOMAIN accounts_by_id
                   THEN <<[rule |-> "from_missing", plan |-> plan.id,
                           account |-> plan.from_account_id]>>
                   ELSE <<>>
    IN  IF plan.to_account_id \notin DOMAIN accounts_by_id
        THEN no_from \o <<[rule |-> "to_missing", plan |-> plan.id,
                           account |-> plan.to_account_id]>>
        ELSE IF no_from # <<>> THEN no_from
        ELSE KindErrors(plan, accounts_by_id[plan.from_account_id],
                        accounts_by_id[plan.to_account_id])
             \o CurrencyErrors(plan, accounts_by_id[plan.from_account_id],
                               accounts_by_id[plan.to_account_id])

\* lines 218-248: the list of errors; accounts_by_id.get(id) is None, and
\* so not true, exactly when id is not a key
validate_plan_accounts(plan, accs) ==
    LET accounts_by_id == account_map(accs) IN
    IF plan.from_account_id \notin DOMAIN accounts_by_id
    THEN <<[rule |-> "from_missing", plan |-> plan.id,
            account |-> plan.from_account_id]>>
    ELSE IF plan.to_account_id \notin DOMAIN accounts_by_id
    THEN <<[rule |-> "to_missing", plan |-> plan.id,
            account |-> plan.to_account_id]>>
    ELSE KindErrors(plan, accounts_by_id[plan.from_account_id],
                    accounts_by_id[plan.to_account_id])
         \o CurrencyErrors(plan, accounts_by_id[plan.from_account_id],
                           accounts_by_id[plan.to_account_id])

---------------------------------------------------------------------------
(* A call of validate_plan_accounts *)

Currencies == {"USD", "EUR"}

\* the accounts an id can stand for
AccountsOf(id, name) ==
    {Account(id, name, kd, c) : kd \in AccountKinds, c \in Currencies}

ValidateAccountLists ==
    {<<>>} \cup {<<a>> : a \in AccountsOf("chk", "Checking")}
           \cup {<<a, b>> : a \in AccountsOf("chk", "Checking"),
                            b \in AccountsOf("sav", "Savings")}
           \cup {<<b, a>> : a \in AccountsOf("chk", "Checking"),
                            b \in AccountsOf("sav", "Savings")}

ValidatePlans ==
    {Plan("p1", t, e[1], e[2], 2, c, "monthly", Date(2024, 1, 31), "active") :
        t \in PlanTypes, e \in Endpoints \cup {<<"ghost", "ghost">>}, c \in Currencies}

InitValidate ==
    /\ accounts \in ValidateAccountLists
    /\ plans \in {<<p>> : p \in ValidatePlans}
    /\ args = [op |-> "validate_plan_accounts"]
    /\ snapshots = <<>>
    /\ ret = None
    /\ pc = "call"
    /\ start_date = None /\ months = 0
    /\ balances = <<>> /\ plan_next_dates = <<>>
    /\ current_date = None /\ month_num = 0 /\ result = <<>>

CallValidatePlanAccounts ==
    /\ pc = "call"
    /\ args.op = "validate_plan_accounts"
    /\ ret' = validate_plan_accounts(plans[1], accounts)
    /\ pc' = "return"
    /\ UNCHANGED <<accounts, snapshots, plans, start_date, months, args,
                   balances, plan_next_dates, current_date, month_num, result>>

NextValidate == CallValidatePlanAccounts

SpecValidate == InitValidate /\ [][NextValidate]_vars

---------------------------------------------------------------------------
(* Properties of validate_plan_accounts *)

\* the accounts of the list with this id
WithId(id) == {k \in DOMAIN accounts : accounts[k].id = id}

\* the rules the plan breaks against two accounts that exist
Violated(plan, f, t) ==
    {r \in {"from_kind", "to_kind", "from_currency", "to_currency"} :
        \/ r = "from_kind" /\ plan.type = "invest" /\ accounts[f].kind # "cash"
        \/ r = "to_kind" /\ plan.type = "invest" /\ accounts[t].kind # "investment"
        \/ r = "from_currency" /\ accounts[f].currency # plan.currency
        \/ r = "to_currency" /\ accounts[t].currency # plan.currency}

\* C20: validate_plan_accounts returns a list of errors. When the from
\* account does not exist the list is the one error saying so, whatever
\* else is wrong; when only the to account does not exist it is the one
\* error saying so; when both exist it has exactly one error for each
\* rule the plan breaks (for an invest plan: from account cash, to account
\* investment; for every plan: plan currency equal to each account's),
\* so it is empty exactly when both accounts exist and no rule is broken.
C20_ValidationErrors ==
    Returned("validate_plan_accounts") =>
        LET plan == plans[1]
            F    == WithId(plan.from_account_id)
            T    == WithId(plan.to_account_id)
        IN  /\ F = {} =>
                  /\ Len(ret) = 1
                  /\ ret[1].rule = "from_missing"
                  /\ ret[1].account = plan.from_account_id
            /\ (F # {} /\ T = {}) =>
                  /\ Len(ret) = 1
                  /\ ret[1].rule = "to_missing"
                  /\ ret[1].account = plan.to_account_id
            /\ (F # {} /\ T # {}) =>
                  \A f \in F : \A t \in T :
                      /\ {ret[i].rule : i \in DOMAIN ret} = Violated(plan, f, t)
                      /\ Len(ret) = Cardinality(Violated(plan, f, t))
            /\ (ret = <<>>) <=>
                  /\ F # {} /\ T # {}
                  /\ \A f \in F : \A t \in T :
                        /\ accounts[f].currency = plan.currency
                        /\ accounts[t].currency = plan.currency
                        /\ plan.type = "invest" =>
                              /\ accounts[f].kind = "cash"
                              /\ accounts[t].kind = "investment"

\* an invest plan out of an investment account into a cash account, both
\* in another currency than the plan's, breaks all four rules
C20_Witness ==
    /\ Returned("validate_plan_accounts")
    /\ plans[1].type = "invest"
    /\ plans[1].from_account_id # plans[1].to_account_id
    /\ Len(ret) = 4
    /\ ret[1].rule = "from_kind" /\ ret[2].rule = "to_kind"
    /\ ret[3].rule = "from_currency" /\ ret[4].rule = "to_currency"

---------------------------------------------------------------------------
(* Two calls, one after the other, on the same arguments *)

TwicePlanLists ==
    SeedPlanLists \cup
    {<<WithEndDate(Plan("p1", "invest", "chk", "sav", 2, "USD", "biweekly", Date(2023, 12, 15), "active"), None),
       WithEndDate(Plan("p2", "invest", "sav", "chk", 1, "USD", "monthly", Date(2024, 1, 31), "active"), Date(2024, 2, 29))>>}

\* args.given keeps the argument values as the caller passed them
InitTwice ==
    /\ \/ /\ accounts \in AccountLists
          /\ snapshots \in ProjSnapshotLists
          /\ plans \in TwicePlanLists
          /\ start_date \in StartDates
          /\ months \in {0, 1, 2}
          /\ pc = "start"
          /\ args = [op |-> "project_cash_flow", call |-> 1,
                     given |-> [accounts |-> accounts, snapshots |-> snapshots,
                                plans |-> plans]]
          /\ result = EmptyResult
       \/ /\ accounts \in NetWorthAccountLists
          /\ snapshots \in SeqsUpTo(SnapshotPool, MaxSeedSnaps)
          /\ plans = <<>>
          /\ start_date = None /\ months = 0
          /\ pc = "call"
          /\ \E d \in AsOfDates :
                args = [op |-> "calculate_net_worth", as_of_date |-> d, call |-> 1,
                        given |-> [accounts |-> accounts, snapshots |-> snapshots,
                                   plans |-> plans]]
          /\ result = <<>>
    /\ ret = None
    /\ balances = <<>>
    /\ plan_next_dates = <<>>
    /\ current_date = None
    /\ month_num = 0

\* the caller keeps what the first call gave (args.first, or result for
\* calculate_net_worth) and calls again with the same arguments; what the
\* first projection left in its locals is still around
CallAgain ==
    /\ args.call = 1
    /\ \/ /\ args.op = "project_cash_flow"
          /\ pc \in {"done", "raised"}
          /\ pc' = "start"
          /\ args' = [op |-> args.op, call |-> 2, given |-> args.given,
                      first |-> [raised |-> pc = "raised", value |-> ret]]
          /\ UNCHANGED result
       \/ /\ args.op = "calculate_net_worth"
          /\ pc = "return"
          /\ pc' = "call"
          /\ args' = [args EXCEPT !.call = 2]
          /\ result' = ret
    /\ UNCHANGED <<accounts, snapshots, plans, start_date, months, ret,
                   balances, plan_next_dates, current_date, month_num>>

NextTwice == Seed \/ Window \/ Return \/ CallCalculateNetWorth \/ CallAgain

SpecTwice == InitTwice /\ [][NextTwice]_vars

---------------------------------------------------------------------------
(* Recurrence dates *)

RECURSIVE EarliestRecurrence(_, _, _)
\* the first of the dates r, r plus one cadence step, r plus two, ... that
\* is on or after d
EarliestRecurrence(cadence, r, d) ==
    IF r >= d THEN r ELSE EarliestRecurrence(cadence, CadenceStep(cadence, r), d)

\* C22: an active plan that started before start_date is first due, and
\* first executed, on its earliest recurrence date on or after start_date:
\* plan.start_date advanced by a whole number of cadence steps.
\* (Stated for a plan whose id no other plan of the list has.)
C22_FirstExecutionIsRecurrence ==
    Seeded =>
        \A k \in DOMAIN plans :
            (/\ plans[k].status = "active"
             /\ plans[k].start_date < start_date
             /\ \A j \in DOMAIN plans : plans[j].id = plans[k].id => j = k)
            => LET due == EarliestRecurrence(plans[k].cadence, plans[k].start_date,
                                             start_date)
               IN  /\ (month_num = 0 /\ plans[k].id \in DOMAIN plan_next_dates) =>
                         plan_next_dates[plans[k].id] = due
                   /\ TransactionsOf(k) # <<>> => TransactionsOf(k)[1].date = due

\* the day of plan.start_date, or the last day of d's month when the
\* month has no such day
AnniversaryDay(plan, d) ==
    Min(DayOf(plan.start_date), DaysInMonth(YearOf(d), MonthOf(d)))

\* C23: every execution date of a monthly, quarterly or annual plan that
\* is first executed on its start_date falls on the day-of-month of
\* plan.start_date, or on the last day of the month where the month has no
\* such day. (Stated for a plan whose id no other plan of the list has.)
C23_DayOfMonthKept ==
    Seeded =>
        \A k \in DOMAIN plans :
            (/\ plans[k].status = "active"
             /\ plans[k].cadence \in {"monthly", "quarterly", "annual"}
             /\ plans[k].start_date >= start_date
             /\ \A j \in DOMAIN plans : plans[j].id = plans[k].id => j = k)
            => \A i \in DOMAIN TransactionsOf(k) :
                  DayOf(TransactionsOf(k)[i].date)
                      = AnniversaryDay(plans[k], TransactionsOf(k)[i].date)

---------------------------------------------------------------------------
(* Windows *)

RECURSIVE WindowStart(_)
\* the first day of the i-th window: start_date, then one calendar month
\* after the window before
WindowStart(i) == IF i = 1 THEN start_date ELSE AddMonths(WindowStart(i - 1), 1)

\* C24: the i-th projection entry ends on the day before the next window
\* starts, one calendar month after its own start, so that the windows
\* follow one another without gap or overlap; every transaction recorded
\* in it is dated within the window; a returned result has exactly
\* `months` entries.
C24_TransactionsWithinWindow ==
    Seeded =>
        /\ Len(result.projections) = month_num
        /\ pc = "done" => Len(ret.projections) = months
        /\ \A i \in DOMAIN result.projections :
              LET entry == result.projections[i] IN
              /\ AddDays(entry.date, 1) = WindowStart(i + 1)
              /\ entry.date >= WindowStart(i)
              /\ \A j \in DOMAIN entry.transactions :
                    /\ WindowStart(i) <= entry.transactions[j].date
                    /\ entry.transactions[j].date <= entry.date

\* a returned projection of three windows that start on the 31st, the
\* 29th and the 29th, with a transaction on the first day of one window
\* and a transaction on the last day of one
C24_Witness ==
    /\ Seeded /\ pc = "done"
    /\ Len(result.projections) = 3
    /\ DayOf(WindowStart(1)) = 31 /\ DayOf(WindowStart(3)) = 29
    /\ \E i \in DOMAIN result.projections :
          \E j \in DOMAIN result.projections[i].transactions :
              result.projections[i].transactions[j].date = WindowStart(i)
    /\ \E i \in DOMAIN result.projections :
          \E j \in DOMAIN result.projections[i].transactions :
              result.projections[i].transactions[j].date = result.projections[i].date

---------------------------------------------------------------------------
(* Snapshots of equal date *)

\* C25: when several qualifying snapshots of the account share the latest
\* date, get_latest_snapshot returns the one that comes first in the list.
C25_FirstOfEqualDates ==
    (Returned("get_latest_snapshot") /\ ret # None) =>
        \A j \in Qualifying :
            snapshots[j].date = snapshots[ret].date => ret <= j

\* the snapshot returned is followed in the list by a qualifying one of
\* the same date and another value, and preceded by an older one
C25_Witness ==
    /\ Returned("get_latest_snapshot")
    /\ ret # None
    /\ \E j \in Qualifying :
          /\ j > ret
          /\ snapshots[j].date = snapshots[ret].date
          /\ snapshots[j].value # snapshots[ret].value
    /\ \E j \in Qualifying : j < ret /\ snapshots[j].date < snapshots[ret].date

---------------------------------------------------------------------------
(* Termination *)

\* one plan of every cadence, start and end between the two accounts, and
\* the two-plan lists of TwicePlanLists and of a shared id
FairPlanLists ==
    {<<p>> : p \in {q \in ProjPlans("p1", 2) :
                        /\ q.status = "active"
                        /\ <<q.from_account_id, q.to_account_id>> = <<"chk", "sav">>}}
    \cup TwicePlanLists
    \cup {<<WithEndDate(Plan("p1", "invest", "chk", "sav", 2, "USD", "monthly", Date(2024, 2, 10), "active"), None), q>> :
            q \in {r \in SecondPlans : r.id = "p1"}}

InitFair ==
    /\ accounts \in AccountLists
    /\ snapshots = <<>>
    /\ plans \in FairPlanLists
    /\ start_date \in StartDates
    /\ months \in 0..MaxMonths
    /\ args = [op |-> "project_cash_flow"]
    /\ ret = EmptyResult
    /\ pc = "start"
    /\ balances = <<>>
    /\ plan_next_dates = <<>>
    /\ current_date = None
    /\ month_num = 0
    /\ result = EmptyResult

\* a step of a call under way: it moves pc or month_num (ret holds a
\* projection throughout, the empty one until the call returns)
Running ==
    /\ pc \in {"start", "loop"}
    /\ pc' \in {"loop", "done", "raised"}
    /\ month_num' \in {month_num, month_num + 1}

\* a call that has begun goes on running: the interpreter executes the
\* function body statement after statement until it returns or raises
SpecFair == InitFair /\ [][Next]_vars /\ WF_<<pc, month_num>>(Running)

\* line 124: the for loop is at one of its months passes
WithinRange == pc = "loop" => month_num \in 0..months

\* the call the inner loop makes next for each pending due date gives a
\* strictly later date, None or an exception
DueDatesAdvance ==
    \A k \in DOMAIN plans :
        (plans[k].status = "active" /\ plans[k].id \in DOMAIN plan_next_dates) =>
            LET d == plan_next_dates[plans[k].id]
                n == get_next_plan_date(plans[k], d)
            IN  n \in {None, AttributeError} \/ n > d

\* within a recorded month the executions under one plan id are dated
\* strictly later and later
ExecutionsAdvance ==
    \A i \in DOMAIN result.projections :
        LET txs == result.projections[i].transactions IN
        \A a, b \in DOMAIN txs :
            (a < b /\ txs[a].plan_id = txs[b].plan_id) => txs[a].date < txs[b].date

\* a pending due date never moves back
DueDatesNeverBack ==
    \A id \in DOMAIN plan_next_dates \cap DOMAIN plan_next_dates' :
        plan_next_dates'[id] >= plan_next_dates[id]

\* C26: every call of project_cash_flow comes to an end; the date
\* get_next_plan_date returns for a pending due date is strictly later
\* than it, so that the executions of a plan within a window are dated
\* strictly later and later and a pending due date never moves back.
C26_ProjectionTerminates ==
    /\ [](WithinRange /\ (Seeded => (DueDatesAdvance /\ ExecutionsAdvance)))
    /\ [][pc = "loop" => DueDatesNeverBack]_vars
    /\ <>(pc \in {"done", "raised"})

\* a returned projection in which a plan executed four times or more in
\* one window and a plan with an end_date has left the schedule
C26_Witness ==
    /\ Seeded /\ pc = "done"
    /\ \E i \in DOMAIN result.projections :
          \E id \in {"p1", "p2"} :
              Len(SelectSeq(result.projections[i].transactions,
                            LAMBDA tx : tx.plan_id = id)) >= 4
    /\ \E k \in DOMAIN plans :
          /\ plans[k].status = "active"
          /\ plans[k].end_date >= 1
          /\ TransactionsOf(k) # <<>>
          /\ plans[k].id \notin DOMAIN plan_next_dates

---------------------------------------------------------------------------
(* Conservation of the total *)

\* the balances an entry started from: the starting balances for the first
\* entry, the balances the entry before recorded otherwise
BalancesBefore(i) ==
    IF i = 1 THEN result.starting_balances
    ELSE result.projections[i - 1].balances.items

\* C27: in every projected month the recorded balances add up, over all
\* accounts, to what the starting balances add up to, and so do the working
\* balances; each account's balance moves within a month by the amounts of
\* that month's transactions into it less those out of it, so that every
\* transfer is applied to both of its accounts.
C27_TransfersConserveTotal ==
    Seeded =>
        LET total == SumOver(result.starting_balances, DOMAIN result.starting_balances)
        IN  /\ SumOver(balances, DOMAIN balances) = total
            /\ \A i \in DOMAIN result.projections :
                  LET recorded == result.projections[i].balances.items
                      txs      == result.projections[i].transactions
                  IN  /\ SumOver(recorded, DOMAIN recorded) = total
                      /\ \A a \in DOMAIN recorded :
                            recorded[a] = BalancesBefore(i)[a]
                                          + SumAmounts(txs, 1, "to_account", a)
                                          - SumAmounts(txs, 1, "from_account", a)

\* a returned projection of two months or more from a total that is not
\* zero, with a transfer between two accounts, and a plan dropped for an
\* unknown account
C27_Witness ==
    /\ Seeded /\ pc = "done"
    /\ Len(result.projections) >= 2
    /\ SumOver(result.starting_balances, DOMAIN result.starting_balances) # 0
    /\ \E i \in DOMAIN result.projections :
          \E k \in DOMAIN result.projections[i].transactions :
              LET tx == result.projections[i].transactions[k]
              IN  tx.from_account # tx.to_account
    /\ \E k \in DOMAIN result.warnings : result.warnings[k].kind = "unknown_from"

---------------------------------------------------------------------------
(* Order of the transfers within a month *)

\* every recorded transaction, in the order of the lists
AllTransactions == UpToMonth(Len(result.projections))

\* the balance of account a once every recorded transfer dated d or
\* earlier is applied, in the order of their dates
ChronologicalBalance(a, d) ==
    LET upto == SelectSeq(AllTransactions, LAMBDA tx : tx.date <= d)
    IN  result.starting_balances[a]
        + SumAmounts(upto, 1, "to_account", a)
        - SumAmounts(upto, 1, "from_account", a)

\* the ids of the accounts of a name
IdsOfName(name) == {a \in DOMAIN account_map(accounts) : account_map(accounts)[a].name = name}

\* C28: the transactions of every recorded month are listed in
\* non-decreasing order of their dates, and a "Negative balance" warning
\* names an account whose balance is negative once all transfers up to the
\* warning's date are applied in the order of their dates.
C28_TransfersInDateOrder ==
    Seeded =>
        /\ \A i \in DOMAIN result.projections :
              LET txs == result.projections[i].transactions
              IN  \A k \in 1..(Len(txs) - 1) : txs[k].date <= txs[k + 1].date
        /\ \A w \in DOMAIN result.warnings :
              result.warnings[w].kind = "negative" =>
                  \A a \in IdsOfName(result.warnings[w].account) :
                      ChronologicalBalance(a, result.warnings[w].date) < 0

---------------------------------------------------------------------------
(* Labels of the entries *)

\* the last day of calendar month ym = <<year, month>>
LastDayOfMonth(ym) == Date(ym[1], ym[2], DaysInMonth(ym[1], ym[2]))

\* the calendar month after ym
MonthAfter(ym) == IF ym[2] = 12 THEN <<ym[1] + 1, 1>> ELSE <<ym[1], ym[2] + 1>>

\* C29: every transaction of an entry is dated within the calendar month
\* of the entry's label, the entry's date is the last day of that calendar
\* month, and the labels of consecutive entries are consecutive calendar
\* months, whatever the day of the month of start_date.
C29_EntriesAreCalendarMonths ==
    Seeded =>
        \A i \in DOMAIN result.projections :
            LET entry == result.projections[i]
            IN  /\ entry.date = LastDayOfMonth(entry.month)
                /\ \A k \in DOMAIN entry.transactions :
                      <<YearOf(entry.transactions[k].date),
                        MonthOf(entry.transactions[k].date)>> = entry.month
                /\ i > 1 => entry.month = MonthAfter(result.projections[i - 1].month)

---------------------------------------------------------------------------
(* A plan's transactions and the other plans of the list *)

RECURSIVE AloneWindows(_, _, _, _)
\* lines 124-203 for the one-plan list <<p>>: n more windows from the one
\* starting at window_start
AloneWindows(p, n, window_start, st) ==
    IF n = 0 \/ st.raised THEN st
    ELSE AloneWindows(p, n - 1, AddMonths(window_start, 1),
                      ForPlans(active_plans(<<p>>), 1, account_map(accounts),
                               MonthEnd(window_start), st))

\* project_cash_flow(accounts, snapshots, [p], start_date, n): the locals
\* after n windows, the transactions of all windows in .transactions
Alone(p, n) ==
    LET due == SeedNextDates(active_plans(<<p>>), 1, start_date, <<>>)
    IN  AloneWindows(p, n, start_date,
                     [balances |-> SeedBalances(accounts, snapshots, start_date),
                      plan_next_dates |-> due.next,
                      transactions |-> <<>>,
                      warnings |-> <<>>,
                      raised |-> due.raised])

\* the dates and amounts of a list of transactions
DatesAndAmounts(txs) == [i \in DOMAIN txs |-> <<txs[i].date, txs[i].amount>>]

\* C30: the dates and amounts of the transactions recorded for an active
\* plan are those recorded when the plan is projected alone, with the same
\* accounts, start_date and number of months, whatever other plans the list
\* holds, one of the same id included.
C30_IndependentOfOtherPlans ==
    Seeded =>
        \A k \in DOMAIN plans :
            plans[k].status = "active" =>
                LET alone == Alone(plans[k], Len(result.projections))
                IN  ~alone.raised =>
                        DatesAndAmounts(TransactionsOf(k))
                            = DatesAndAmounts(alone.transactions)

===========================================================================
